---- MODULE Spec2Model ----
(***************************************************************************)
(* Model of the AVIVO retrieval subsystem: the FAISS-backed VectorStore    *)
(* (src/src/services/vector_store.py), the Redis-backed CacheService       *)
(* (src/src/services/cache_service.py) and the RAGService orchestrator     *)
(* (src/src/services/rag_service.py), as used by the two caller-facing     *)
(* layers: the HTTP routes (src/src/api/routes.py) and the Telegram        *)
(* handlers (src/src/handlers/telegram_handlers.py).                       *)
(*                                                                         *)
(* Text is a sequence of one-character strings.  The external              *)
(* collaborators (embedding endpoint, language model, Redis, the file      *)
(* system) are nondeterministic: every call may succeed or fail.           *)
(***************************************************************************)
EXTENDS Integers, Sequences, FiniteSets, TLC

\* ------------------------------------------------------------ bounds
\* Largest number of chunks one in-memory index is driven to.
MaxDocs == 2
\* The same, in the specification of the query path (SpecQuery).
MaxQueryDocs == 1
\* chunk_size and chunk_overlap of the text splitter, in characters (the
\* configuration defaults are 512 and 50), and the longest text split
chunk_size == 3
chunk_overlap == 1
MaxTextLen == 5
\* the longest string a cache key is derived from on its own
MaxKeyLen == 3

\* ------------------------------------------------- program constants
\* rag_service.py:114   cache_key = f"rag:{question[:50]}"
KeyPrefixLen == 50
\* config.py:44   RAG_TOP_K default
RAG_TOP_K == 5
\* rag_service.py:162   doc['content'][:200] + '...'
SourcePreviewLen == 200
\* rag_service.py:127   score_threshold=0.0 (config.RAG_SIMILARITY_THRESHOLD is
\* read by RAGService.__init__ and never passed on)
score_threshold == 0
\* cache_service.py:113   ttl: int = 3600
RagTtl == 3600
\* config.py:33   REDIS_TTL default
REDIS_TTL == 86400

\* ------------------------------------------------------------- text
Min(a, b) == IF a < b THEN a ELSE b

\* str.lower() on the alphabet of the model
LowerChar(c) == IF c = "A" THEN "a" ELSE IF c = "B" THEN "b" ELSE c

Lower(s) == [i \in 1..Len(s) |-> LowerChar(s[i])]

IsSpace(c) == c \in {" ", "\n"}

RECURSIVE LStrip(_)
LStrip(s) == IF s # <<>> /\ IsSpace(Head(s)) THEN LStrip(Tail(s)) ELSE s

RECURSIVE RStrip(_)
RStrip(s) ==
    IF s # <<>> /\ IsSpace(s[Len(s)]) THEN RStrip(SubSeq(s, 1, Len(s) - 1)) ELSE s

\* str.strip(): leading and trailing whitespace removed
Strip(s) == LStrip(RStrip(s))

\* s[:n]
Prefix(s, n) == SubSeq(s, 1, Min(n, Len(s)))

\* hashlib.sha256(...).hexdigest(): collision-resistant, so the digest is
\* represented by its (tagged) preimage; distinct inputs give distinct digests.
Sha256Hex(s) == <<"sha256:">> \o s

\* (variant) the digest of the string as given
generate_rag_cache_key_exact(query) == <<"rag_query:">> \o Sha256Hex(query)

\* CacheService.generate_rag_cache_key
generate_rag_cache_key(query) == <<"rag_query:">> \o Sha256Hex(Strip(Lower(query)))

\* RAGService.query, line 114: the string handed to the cache service
RagCacheKey(question) == <<"r", "a", "g", ":">> \o Prefix(question, KeyPrefixLen)

\* The Redis key a query for `question` reads and writes
QueryRedisKey(question) == generate_rag_cache_key(RagCacheKey(question))

\* json.dumps / json.loads of a response dict (str, int, bool, list, dict only)
JsonDumps(r) == <<"json", r>>

\* (variant) only the answer of a cached response is read back
JsonLoadsAnswer(v) == [answer |-> v[2].answer]

JsonLoads(v) == v[2]

\* ------------------------------------------------------- the inputs
Insts == {"http", "telegram"}

\* chunk-sized pieces of document text
TA == <<"a">>
TB == <<"b">>

Pad == [i \in 1..KeyPrefixLen |-> "a"]
LongA == Pad \o <<"a">>
LongB == Pad \o <<"b">>

\* questions: a base question, a case + trailing-blank variant, a
\* leading-blank variant, and two questions longer than the key prefix
ShortQuestions == {<<"a">>, <<"A", " ">>, <<" ", "a">>}
LongQuestions == {LongA, LongB}
\* questions that are the text of a chunk
ChunkQuestions == {TA, TB}

\* page_content of a Document, in chunk-sized pieces (<<>>: empty or blank text)
TextArgs == {<<>>, <<TA>>, <<TB>>, <<TA, TB>>}

FileArgs ==
    { [kind |-> "unsupported", pages |-> <<>>],
      [kind |-> "unreadable", pages |-> <<>>],
      [kind |-> "ok", pages |-> << <<>> >>],
      [kind |-> "ok", pages |-> << <<TA>> >>],
      [kind |-> "ok", pages |-> << <<TA>>, <<TB>> >>] }

\* top_k argument; 0 stands for None (and is falsy like it); the HTTP route
\* accepts any integer
TopKArgs == {-1, 0, 1}

\* answers the language model may give
Answers == {"ans1", "ans2"}
NoInfoAnswer == "I don't have enough information"
ErrorAnswer == "An error occurred"

\* ------------------------------------------------- embedding, FAISS
CharCode(c) == CASE c = " " -> 0 [] c = "a" -> 1 [] c = "b" -> 2 [] OTHER -> 3

\* OllamaEmbeddings.embed_query: a deterministic function of the text,
\* here one coordinate; distinct texts of the model get distinct vectors.
Embed(s) == IF s = <<>> THEN 0 ELSE Len(s) * 8 + CharCode(s[Len(s)])

\* squared L2 distance, as IndexFlatL2 reports it
Distance(u, v) == (u - v) * (u - v)

\* RecursiveCharacterTextSplitter.split_documents: the chunks of every
\* document, in order; an empty or blank document contributes none.
RECURSIVE split_documents(_)
split_documents(documents) ==
    IF documents = <<>> THEN <<>>
    ELSE [j \in 1..Len(Head(documents)) |-> [content |-> Head(documents)[j]]]
         \o split_documents(Tail(documents))

\* (variant) the texts are embedded and appended one at a time, so the ones
\* before the failing request stay in the index
FaissAddDocumentsOneByOne(m, chunks, failAt) ==
    IF failAt = 0 THEN m \o chunks ELSE m \o SubSeq(chunks, 1, failAt - 1)

\* FAISS.from_documents / FAISS.add_documents: embed_documents embeds every
\* text first (one request per text; failAt is the text whose request fails,
\* 0 if none does) and only then appends texts and vectors to the index.
FaissAddDocuments(m, chunks, failAt) == IF failAt = 0 THEN m \o chunks ELSE m

\* the durable index directory (index.faiss + index.pkl)
NoDisk == [state |-> "absent", docs |-> <<>>]
CorruptDisk == [state |-> "corrupt", docs |-> <<>>]
SaveOutcomes == {"ok", "fail", "partial"}

\* (variant) nothing is written although no error is raised
_save_index_skipped(d, m, outcome) == d

\* VectorStore._save_index: mkdir + save_local; it raises when either fails,
\* before anything is written ("fail") or with the files half written ("partial")
_save_index(d, m, outcome) ==
    CASE outcome = "ok" -> [state |-> "ok", docs |-> m]
      [] outcome = "fail" -> d
      [] OTHER -> CorruptDisk

\* (variant) a damaged index file is loaded as far as it can be read
_load_index_lenient(d) ==
    IF d.state = "ok" THEN d.docs
    ELSE IF d.state = "corrupt" THEN <<[content |-> <<>>]>> ELSE <<>>

\* (variant) the persisted index is never loaded
_load_index_fresh(d) == <<>>

\* VectorStore._load_index: None (here <<>>) when index.faiss is absent or
\* load_local raises
_load_index(d) == IF d.state = "ok" THEN d.docs ELSE <<>>

\* (variant) an empty chunk sequence is indexed and saved like any other
add_documents_unchecked(m, d, documents, failAt, outcome) ==
    LET m2 == FaissAddDocuments(m, split_documents(documents), failAt) IN
    IF failAt # 0 THEN [ok |-> FALSE, mem |-> m2, disk |-> d]
    ELSE [ok |-> outcome = "ok", mem |-> m2, disk |-> _save_index(d, m2, outcome)]

\* VectorStore.add_documents
add_documents(m, d, documents, failAt, outcome) ==
    LET chunks == split_documents(documents) IN
    IF Len(chunks) = 0 THEN [ok |-> FALSE, mem |-> m, disk |-> d]
    ELSE IF failAt # 0
         THEN [ok |-> FALSE, mem |-> FaissAddDocuments(m, chunks, failAt), disk |-> d]
         ELSE LET m2 == FaissAddDocuments(m, chunks, 0) IN
              [ok |-> outcome = "ok", mem |-> m2, disk |-> _save_index(d, m2, outcome)]

\* (variant) a file no loader reads is indexed as one page of placeholder text
load_document_placeholder(file) ==
    IF file.kind = "ok" THEN file.pages ELSE << <<TA>> >>

\* DocumentLoaderService.load_document: [] for an unsupported extension or
\* when the loader raises
load_document(file) == IF file.kind = "ok" THEN file.pages ELSE <<>>

\* (variant) chunks of equal text are counted once
get_stats_distinct(m) ==
    [total_documents |-> Cardinality({m[j].content : j \in 1..Len(m)})]

\* VectorStore.get_stats: the number of entries (0 for None)
get_stats(m) == [total_documents |-> Len(m)]

\* VectorStore.clear: vectorstore = None, then rmtree of the index directory
\* when it exists; rmtree may raise before ("fail") or after ("partial")
\* deleting part of the directory
clear(m, d, outcome) ==
    IF d.state = "absent" \/ outcome = "ok"
    THEN [ok |-> TRUE, mem |-> <<>>, disk |-> NoDisk]
    ELSE [ok |-> FALSE, mem |-> <<>>,
          disk |-> IF outcome = "fail" THEN d ELSE CorruptDisk]

\* ----------------------------------------------------------- search
Scored(m, qv) ==
    [j \in 1..Len(m) |->
        [content |-> m[j].content, distance |-> Distance(Embed(m[j].content), qv)]]

\* index of the nearest entry, the earliest one among equals
MinIdx(s) ==
    CHOOSE j \in 1..Len(s) :
        \A l \in 1..Len(s) :
            \/ s[j].distance < s[l].distance
            \/ s[j].distance = s[l].distance /\ j <= l

RemoveAt(s, j) == SubSeq(s, 1, j - 1) \o SubSeq(s, j + 1, Len(s))

\* FAISS.similarity_search_with_score(query, k): the k nearest entries by
\* ascending distance (fewer when the index holds fewer)
RECURSIVE TopK(_, _)
TopK(s, k) ==
    IF k <= 0 \/ s = <<>> THEN <<>>
    ELSE <<s[MinIdx(s)]>> \o TopK(RemoveAt(s, MinIdx(s)), k - 1)

\* the least whole distance d for which math.exp(-d) is 0.0 in double precision
UnderflowAt == 746

\* math.exp(-distance), kept as its order: larger means more similar, never
\* negative, and 0 for every distance from UnderflowAt on
Similarity(distance) ==
    IF distance >= UnderflowAt THEN 0 ELSE UnderflowAt - distance

\* (variant) the comparison with the threshold is strict
PassesThresholdStrict(r) == Similarity(r.distance) > score_threshold

\* line 146: similarity_score >= score_threshold
PassesThreshold(r) == Similarity(r.distance) >= score_threshold

\* (variant) an entry is placed before the entries of equal similarity
RECURSIVE InsertBeforeEquals(_, _)
InsertBeforeEquals(sorted, r) ==
    IF sorted = <<>> THEN <<r>>
    ELSE IF Similarity(Head(sorted).distance) > Similarity(r.distance)
         THEN <<Head(sorted)>> \o InsertBeforeEquals(Tail(sorted), r)
         ELSE <<r>> \o sorted

\* list.sort(key = similarity_score, reverse = True): stable
RECURSIVE InsertBySimilarity(_, _)
InsertBySimilarity(sorted, r) ==
    IF sorted = <<>> THEN <<r>>
    ELSE IF Similarity(Head(sorted).distance) >= Similarity(r.distance)
         THEN <<Head(sorted)>> \o InsertBySimilarity(Tail(sorted), r)
         ELSE <<r>> \o sorted

RECURSIVE SortBySimilarity(_)
SortBySimilarity(s) ==
    IF s = <<>> THEN <<>>
    ELSE InsertBySimilarity(SortBySimilarity(SubSeq(s, 1, Len(s) - 1)), s[Len(s)])

\* similarity_search_with_score raises: the embedding request of the query
\* fails, or faiss rejects a k below 1
SearchRaises(m, k, embOk) == m # <<>> /\ (~embOk \/ k < 1)

\* VectorStore.similarity_search: [] on an empty store, and [] as well when
\* anything raises (lines 161-163)
similarity_search(m, query, k, embOk) ==
    IF m = <<>> THEN <<>>
    ELSE IF SearchRaises(m, k, embOk) THEN <<>>
    ELSE SortBySimilarity(SelectSeq(TopK(Scored(m, Embed(query)), k), PassesThreshold))

\* ------------------------------------------------------------ cache
\* (variant) the entries a search returns are taken out of the index
index_after_search_popped(m, results) ==
    IF results = <<>> THEN m ELSE SubSeq(m, 1, Len(m) - Len(results))

\* the in-memory index after similarity_search: the search reads the store
\* and builds its results as new dicts; nothing is assigned or written
index_after_search(m, results) == m

EmptyMap == [x \in {} |-> <<>>]

MapPut(f, k, v) == [x \in DOMAIN f \cup {k} |-> IF x = k THEN v ELSE f[x]]

MapDel(f, k) == [x \in DOMAIN f \ {k} |-> f[x]]

\* CacheService.get_cached_rag_response: None (hit = FALSE) when disabled,
\* when Redis raises, or when the key is absent
get_cached_rag_response(en, c, query, fault) ==
    LET key == generate_rag_cache_key(query) IN
    IF en /\ ~fault /\ key \in DOMAIN c
    THEN [hit |-> TRUE, value |-> JsonLoads(c[key])]
    ELSE [hit |-> FALSE, value |-> [answer |-> ""]]

\* (variant) the entry is written although the cache is disabled or Redis raises
set_cached_rag_response_unguarded(en, c, query, response, fault) ==
    MapPut(c, generate_rag_cache_key(query), JsonDumps(response))

\* CacheService.set_cached_rag_response: setex under the generated key; False
\* without writing when disabled or when Redis raises
set_cached_rag_response(en, c, query, response, fault) ==
    IF en /\ ~fault
    THEN MapPut(c, generate_rag_cache_key(query), JsonDumps(response))
    ELSE c

\* ------------------------------------------------------------ query
SourceOf(doc) ==
    [content |-> Prefix(doc.content, SourcePreviewLen) \o <<".", ".", ".">>,
     distance |-> doc.distance]

\* (variant) the error result is written to the cache like an answer
error_result_cached(en, c, cache_key, result, fault) ==
    set_cached_rag_response(en, c, cache_key, result, fault)

\* lines 176-181: the except branch returns the error result and writes
\* nothing
error_result(en, c, cache_key, result, fault) == c

\* (variant) the result is cached whatever the search returned
CachesResultAlways(search_results) == TRUE

\* lines 133-135 and 154-171: whether the result of a search is cached
CachesResult(search_results) == search_results # <<>>

\* RAGService.query.  env: the behaviour of the collaborators during the call
\*   getFault / setFault  Redis raises on get / setex
\*   embOk                the embedding request of the search succeeds
\* The fields searched, embFailed, searchFailed, llm, llmFailed, cacheSet and
\* fault of the outcome tell which calls were made and which of them raised.
\*   llmOk, answer        llm.invoke succeeds and returns answer
query(m, en, c, question, top_k, include_sources, env) ==
    LET k == IF top_k = 0 THEN RAG_TOP_K ELSE top_k
        cache_key == RagCacheKey(question)
        cached == get_cached_rag_response(en, c, cache_key, env.getFault)
        search_results == similarity_search(m, question, k, env.embOk)
        embFailed == m # <<>> /\ ~env.embOk
        none == [res |-> [answer |-> ""], cache |-> c, hit |-> FALSE,
                 searched |-> FALSE, results |-> <<>>, embFailed |-> FALSE,
                 searchFailed |-> FALSE,
                 llm |-> FALSE, llmFailed |-> FALSE, cacheSet |-> FALSE,
                 written |-> FALSE, fault |-> en /\ env.getFault]
    IN
    IF cached.hit
    THEN [none EXCEPT !.res = cached.value, !.hit = TRUE]
    ELSE IF search_results = <<>>
    THEN LET result == [answer |-> NoInfoAnswer]
             wr == CachesResult(search_results) IN
         [none EXCEPT !.res = result, !.searched = TRUE, !.embFailed = embFailed,
                      !.searchFailed = SearchRaises(m, k, env.embOk),
                      !.cacheSet = wr,
                      !.written = (wr /\ en /\ ~env.setFault),
                      !.cache = IF wr
                                THEN set_cached_rag_response(en, c, cache_key, result,
                                                             env.setFault)
                                ELSE c]
    ELSE IF ~env.llmOk
    THEN [none EXCEPT !.res = [answer |-> ErrorAnswer, error |-> TRUE],
                      !.searched = TRUE, !.results = search_results,
                      !.llm = TRUE, !.llmFailed = TRUE,
                      !.cache = error_result(en, c, cache_key,
                                             [answer |-> ErrorAnswer, error |-> TRUE],
                                             env.setFault)]
    ELSE LET base == [answer |-> env.answer, num_sources |-> Len(search_results)]
             result ==
                 IF include_sources
                 THEN [answer |-> base.answer, num_sources |-> base.num_sources,
                       sources |-> [j \in 1..Len(search_results) |->
                                       SourceOf(search_results[j])]]
                 ELSE base
             wr == CachesResult(search_results) IN
         [none EXCEPT !.res = result, !.searched = TRUE, !.results = search_results,
                      !.llm = TRUE, !.cacheSet = wr,
                      !.written = (wr /\ en /\ ~env.setFault),
                      !.fault = en /\ (env.getFault \/ env.setFault),
                      !.cache = IF wr
                                THEN set_cached_rag_response(en, c, cache_key, result,
                                                             env.setFault)
                                ELSE c]

\* ------------------------------------------------------------ state
\* mem[i]     entries of the in-memory FAISS store of service i (<<>>: None)
\* disk       the persisted index directory, shared by both services
\* enabled[i] CacheService.enabled of service i
\* cache      the Redis keys of the query namespace and their values
\* origin     (history) the question whose query wrote each cache key
\* last       (history) the last operation, its arguments and what it did
\* scen       (history) a successful add, followed by restarts only
\* cleared    (history) a successful clear with no successful add since
\* pc[t]      where the handler coroutine t stands
\* running    the coroutine the event loop is executing ("none": the loop is free)
\* job[t]     the locals of handler t inside VectorStore.add_documents
\* ttl        the seconds each Redis key has left to live
VARIABLES mem, disk, enabled, cache, origin, last, scen, cleared, pc, running, job,
          ttl

\* the variables of the handler coroutines
tvars == <<pc, running, job>>

vars ==
    <<mem, disk, enabled, cache, origin, last, scen, cleared, pc, running, job, ttl>>

NoOp ==
    [op |-> "init", inst |-> "none", ok |-> FALSE, batch |-> <<>>, q |-> <<>>,
     res |-> [answer |-> ""], hit |-> FALSE, searched |-> FALSE, results |-> <<>>,
     embFailed |-> FALSE, searchFailed |-> FALSE, llm |-> FALSE,
     llmFailed |-> FALSE, cacheSet |-> FALSE, fault |-> FALSE,
     file |-> "none", k |-> 0, cache_type |-> "none",
     deleted |-> {}, chunks |-> <<>>, args |-> <<>>, keys |-> <<>>,
     include_sources |-> FALSE, explicit_k |-> FALSE]

NoScen == [stage |-> "none", batch |-> <<>>]

\* The handler coroutines: the FastAPI routes of routes.py and the Telegram
\* handlers registered in bot.py that reach the index.  app.py starts the bot
\* as a task of the event loop uvicorn serves the routes on.
Tasks ==
    {"upload_to_rag", "rag_query", "clear_rag",
     "addtext_command", "handle_document", "ask_command"}

\* the RAGService a handler uses
InstOf(t) ==
    IF t \in {"upload_to_rag", "rag_query", "clear_rag"} THEN "http" ELSE "telegram"

AddTasks == {"upload_to_rag", "addtext_command", "handle_document"}
QueryTasks == {"rag_query", "ask_command"}
ClearTasks == {"clear_rag"}

\* handlers that await (file.read, reply_text, get_file, download_to_drive)
\* before they call the service
AwaitsFirst(t) ==
    t \in {"upload_to_rag", "addtext_command", "handle_document", "ask_command"}

NoJob == [chunks |-> <<>>, wasNone |-> FALSE]

\* routes.py:14 and telegram_handlers.py:16 each construct a RAGService, hence
\* a VectorStore (which loads the persisted index) and a CacheService (which
\* pings Redis) of their own.
Init ==
    /\ disk \in {NoDisk, CorruptDisk}
    /\ mem = [i \in Insts |-> _load_index(disk)]
    /\ enabled \in [Insts -> BOOLEAN]
    /\ cache = EmptyMap
    /\ ttl = EmptyMap
    /\ origin = EmptyMap
    /\ last = NoOp
    /\ scen = NoScen
    /\ cleared = FALSE
    /\ pc = [t \in Tasks |-> "idle"]
    /\ running = "none"
    /\ job = [t \in Tasks |-> NoJob]

\* the history kept of an add_documents call r of a batch of chunks
AddHistory(i, r, chunks, embFailed) ==
    /\ last' = [NoOp EXCEPT !.op = "add", !.inst = i, !.ok = r.ok, !.batch = chunks,
                            !.embFailed = embFailed]
    /\ scen' = IF r.ok THEN [stage |-> "added", batch |-> chunks]
               ELSE IF r.mem = mem[i] /\ r.disk = disk THEN scen
               ELSE NoScen
    /\ cleared' = (cleared /\ ~r.ok)

\* VectorStore.add_documents on the store of service i
AddDocuments(i, documents) ==
    LET chunks == split_documents(documents) IN
    /\ Len(mem[i]) + Len(chunks) <= MaxDocs
    /\ \E failAt \in 0..Len(chunks) :
       \E r \in { add_documents(mem[i], disk, documents, failAt, outcome) :
                    outcome \in SaveOutcomes } :
          /\ mem' = [mem EXCEPT ![i] = r.mem]
          /\ disk' = r.disk
          /\ AddHistory(i, r, chunks, failAt # 0)
    /\ UNCHANGED <<enabled, cache, origin, ttl, tvars>>

\* RAGService.add_document (Telegram /addtext): one Document of the text
AddDocument(i, text) ==
    /\ i = "telegram"
    /\ AddDocuments(i, <<text>>)

\* RAGService.add_document_from_file (HTTP upload, Telegram document):
\* False without touching the store when the loader yields no document
AddDocumentFromFile(i, file) ==
    LET documents == load_document(file) IN
    IF documents = <<>>
    THEN /\ last' = [NoOp EXCEPT !.op = "add", !.inst = i, !.file = file.kind]
         /\ UNCHANGED <<mem, disk, enabled, cache, origin, ttl, scen, cleared, tvars>>
    ELSE AddDocuments(i, documents)

\* DELETE /api/rag/clear: the only registered caller of VectorStore.clear
\* (bot.py registers no handler for clearrag_command)
Clear(i) ==
    /\ i = "http"
    /\ \E r \in { clear(mem[i], disk, outcome) : outcome \in SaveOutcomes } :
          /\ mem' = [mem EXCEPT ![i] = r.mem]
          /\ disk' = r.disk
          /\ last' = [NoOp EXCEPT !.op = "clear", !.inst = i, !.ok = r.ok]
          /\ cleared' = (r.ok \/ cleared)
    /\ scen' = NoScen
    /\ UNCHANGED <<enabled, cache, origin, ttl, tvars>>

\* What the collaborators may do during one query: Redis get raises or not;
\* then the embedding request fails, or llm.invoke fails, or it answers and
\* Redis setex raises or not.  (Fields a call never reads are kept fixed.)
Envs(en) ==
    { e \in [getFault : BOOLEAN, embOk : BOOLEAN, llmOk : BOOLEAN,
             answer : Answers, setFault : BOOLEAN] :
        /\ ~en => ~e.getFault /\ ~e.setFault
        /\ ~e.embOk => e.llmOk
        /\ ~(e.embOk /\ e.llmOk) => e.answer = "ans1" /\ ~e.setFault }

\* RAGService.query, from POST /api/rag/query (any top_k) or from /ask and
\* plain-text questions on Telegram (no top_k); no caller asks for sources
Query(i, question, top_k, include_sources) ==
    /\ i = "telegram" => top_k = 0
    /\ \E r \in { query(mem[i], enabled[i], cache, question, top_k,
                        include_sources, env) : env \in Envs(enabled[i]) } :
          /\ cache' = r.cache
          /\ origin' = IF r.cache # cache
                       THEN MapPut(origin, QueryRedisKey(question), question)
                       ELSE origin
          /\ ttl' = IF r.written
                    THEN MapPut(ttl, QueryRedisKey(question), RagTtl)
                    ELSE ttl
          /\ last' = [NoOp EXCEPT !.op = "query", !.inst = i, !.q = question,
                         !.res = r.res, !.hit = r.hit, !.searched = r.searched,
                         !.results = r.results, !.embFailed = r.embFailed,
                         !.searchFailed = r.searchFailed, !.llm = r.llm, !.llmFailed = r.llmFailed,
                         !.cacheSet = r.cacheSet, !.fault = r.fault]
          /\ mem' = [mem EXCEPT ![i] = index_after_search(mem[i], r.results)]
    /\ UNCHANGED <<disk, enabled, scen, cleared, tvars>>

\* the TTL of a cache entry (setex, 3600 s) elapses
Expire(key) ==
    /\ key \in DOMAIN cache
    /\ cache' = MapDel(cache, key)
    /\ origin' = MapDel(origin, key)
    /\ ttl' = MapDel(ttl, key)
    /\ last' = [NoOp EXCEPT !.op = "expire"]
    /\ UNCHANGED <<mem, disk, enabled, scen, cleared, tvars>>

\* process restart: both services are constructed again before any request
\* is served; Redis and the index directory survive
Restart ==
    /\ mem' = [i \in Insts |-> _load_index(disk)]
    /\ enabled' \in [Insts -> BOOLEAN]
    /\ last' = [NoOp EXCEPT !.op = "restart"]
    /\ scen' = IF scen.stage = "none" THEN scen
               ELSE [stage |-> "reloaded", batch |-> scen.batch]
    /\ UNCHANGED <<disk, cache, origin, ttl, cleared, tvars>>

\* ------------------------------------------------- specifications
\* The index life cycle: every add, clear, query and restart of both services,
\* in a deployment whose Redis is unreachable at every start (the cache is
\* disabled, so every query searches the index).
InitIndex == Init /\ enabled = [i \in Insts |-> FALSE]

RestartNoRedis == Restart /\ enabled' = [i \in Insts |-> FALSE]

NextIndex ==
    \/ \E i \in Insts, text \in TextArgs : AddDocument(i, text)
    \/ \E i \in Insts, file \in FileArgs : AddDocumentFromFile(i, file)
    \/ \E i \in Insts : Clear(i)
    \/ \E i \in Insts, question \in ChunkQuestions, top_k \in TopKArgs :
          Query(i, question, top_k, FALSE)
    \/ RestartNoRedis

SpecIndex == InitIndex /\ [][NextIndex]_vars

\* The query path: queries of both services against the shared cache, with
\* Redis reachable or not at start, over indexes of at most MaxQueryDocs
\* chunks of one text.
SmallAdd(i, documents) ==
    LET chunks == split_documents(documents) IN
    /\ Len(mem[i]) + Len(chunks) <= MaxQueryDocs
    /\ \A j \in 1..Len(chunks) : chunks[j].content = TA

NextQueryOf(questions) ==
    \/ \E i \in Insts, text \in TextArgs :
          SmallAdd(i, <<text>>) /\ AddDocument(i, text)
    \/ \E i \in Insts, file \in FileArgs :
          SmallAdd(i, load_document(file)) /\ AddDocumentFromFile(i, file)
    \/ \E i \in Insts, question \in questions, top_k \in TopKArgs :
          Query(i, question, top_k, FALSE)
    \/ \E key \in DOMAIN cache : Expire(key)

NextQuery == NextQueryOf(ShortQuestions)

SpecQuery == Init /\ [][NextQuery]_vars

\* The same with the questions longer than the key prefix.
NextLong == NextQueryOf(LongQuestions)

SpecLong == Init /\ [][NextLong]_vars

\* ------------------------------------------------ handler coroutines
\* Every route is an "async def" and every Telegram handler a coroutine, all
\* on one event loop; the service methods they call are plain functions, so a
\* handler keeps the loop from its call of the service to its return.
svars == <<enabled, cache, origin, ttl, last, scen, cleared>>

\* (variant) handler bodies run on worker threads: a step needs no loop
MayRunOnThreads(t) == TRUE

\* the event loop executes one coroutine at a time
MayRun(t) == running \in {"none", t}

\* (variant) a coroutine can be suspended at every position
ReleasesLoopEverywhere(p) == TRUE

\* the positions at which a coroutine is suspended: not started, or at an
\* await; add_documents, similarity_search and clear contain no await
ReleasesLoop(p) == p \in {"idle", "await"}

Goto(t, p) ==
    /\ pc' = [pc EXCEPT ![t] = p]
    /\ running' = IF ReleasesLoop(p) THEN "none" ELSE t

\* a request or an update arrives and its handler runs up to its first await
Begin(t) ==
    /\ pc[t] = "idle" /\ MayRun(t)
    /\ Goto(t, IF AwaitsFirst(t) THEN "await" ELSE "call")
    /\ UNCHANGED <<mem, disk, job, svars>>

\* the awaited I/O completes and the handler goes on to call the service
Resume(t) ==
    /\ pc[t] = "await" /\ MayRun(t)
    /\ Goto(t, "call")
    /\ UNCHANGED <<mem, disk, job, svars>>

\* add_documents, lines 79-88: split; False when there is no chunk; else the
\* test of self.vectorstore against None
AddRead(t, documents) ==
    LET chunks == split_documents(documents) IN
    /\ t \in AddTasks /\ pc[t] = "call" /\ MayRun(t)
    /\ Len(mem[InstOf(t)]) + Len(chunks) <= MaxDocs
    /\ IF chunks = <<>>
       THEN Goto(t, "idle") /\ job' = job
       ELSE /\ Goto(t, "read")
            /\ job' = [job EXCEPT ![t] = [chunks |-> chunks,
                                          wasNone |-> mem[InstOf(t)] = <<>>]]
    /\ UNCHANGED <<mem, disk, svars>>

\* lines 88-95: FAISS.from_documents replaces the store, add_documents appends
\* to it; a failed embedding request raises and add_documents returns False
AddEmbed(t) ==
    /\ t \in AddTasks /\ pc[t] = "read" /\ MayRun(t)
    /\ \E failAt \in 0..Len(job[t].chunks) :
          LET base == IF job[t].wasNone THEN <<>> ELSE mem[InstOf(t)] IN
          IF failAt = 0
          THEN /\ mem' = [mem EXCEPT ![InstOf(t)] =
                             FaissAddDocuments(base, job[t].chunks, 0)]
               /\ Goto(t, "mutated") /\ job' = job
          ELSE /\ mem' = mem
               /\ Goto(t, "idle") /\ job' = [job EXCEPT ![t] = NoJob]
    /\ UNCHANGED <<disk, svars>>

\* lines 100-105: _save_index, then the return
AddSave(t) ==
    /\ t \in AddTasks /\ pc[t] = "mutated" /\ MayRun(t)
    /\ \E outcome \in SaveOutcomes :
          disk' = _save_index(disk, mem[InstOf(t)], outcome)
    /\ Goto(t, "idle") /\ job' = [job EXCEPT ![t] = NoJob]
    /\ UNCHANGED <<mem, svars>>

\* RAGService.query, lines 124-128: the search reads the in-memory store
Search(t, question) ==
    /\ t \in QueryTasks /\ pc[t] = "call" /\ MayRun(t)
    /\ similarity_search(mem[InstOf(t)], question, RAG_TOP_K, TRUE) \in Seq(
           [content : {TA, TB}, distance : Nat])
    /\ Goto(t, "searched")
    /\ UNCHANGED <<mem, disk, job, svars>>

\* lines 133-181: the language-model call and the return
Generate(t) ==
    /\ t \in QueryTasks /\ pc[t] = "searched" /\ MayRun(t)
    /\ Goto(t, "idle")
    /\ UNCHANGED <<mem, disk, job, svars>>

\* VectorStore.clear, line 168: self.vectorstore = None
ClearMem(t) ==
    /\ t \in ClearTasks /\ pc[t] = "call" /\ MayRun(t)
    /\ mem' = [mem EXCEPT ![InstOf(t)] = <<>>]
    /\ Goto(t, "clearing")
    /\ UNCHANGED <<disk, job, svars>>

\* lines 170-175: rmtree of the index directory, then the return
ClearDisk(t) ==
    /\ t \in ClearTasks /\ pc[t] = "clearing" /\ MayRun(t)
    /\ \E outcome \in SaveOutcomes :
          disk' = clear(mem[InstOf(t)], disk, outcome).disk
    /\ Goto(t, "idle")
    /\ UNCHANGED <<mem, job, svars>>

NextTasks ==
    \/ \E t \in Tasks : Begin(t)
    \/ \E t \in Tasks : Resume(t)
    \/ \E t \in Tasks, text \in TextArgs : AddRead(t, <<text>>)
    \/ \E t \in Tasks : AddEmbed(t)
    \/ \E t \in Tasks : AddSave(t)
    \/ \E t \in Tasks, question \in ChunkQuestions : Search(t, question)
    \/ \E t \in Tasks : Generate(t)
    \/ \E t \in Tasks : ClearMem(t)
    \/ \E t \in Tasks : ClearDisk(t)

SpecTasks == InitIndex /\ [][NextTasks]_vars

\* ------------------------------------------------ the search alone
\* Largest index the search is applied to on its own.
MaxSearchLen == 2

\* a third chunk text, as far from TB as TA is
TC == <<"A">>

SearchTexts == {TA, TB, TC}

\* the stores a sequence of successful adds of these texts leaves
SearchIndexes ==
    UNION { { [j \in 1..n |-> [content |-> f[j]]] : f \in [1..n -> SearchTexts] } :
              n \in 0..MaxSearchLen }

\* queries next to the chunks, and one so far from them that exp(-distance)
\* underflows
SearchQuestions == {TA, TB, LongA}

\* the k of VectorStore.similarity_search
SearchKs == -1..(MaxSearchLen + 1)

\* both services have loaded the index m that earlier adds persisted
InitSearch ==
    /\ \E m \in SearchIndexes :
          /\ mem = [i \in Insts |-> m]
          /\ disk = IF m = <<>> THEN NoDisk ELSE [state |-> "ok", docs |-> m]
    /\ enabled = [i \in Insts |-> FALSE]
    /\ cache = EmptyMap /\ origin = EmptyMap /\ ttl = EmptyMap
    /\ last = NoOp /\ scen = NoScen /\ cleared = FALSE
    /\ pc = [t \in Tasks |-> "idle"] /\ running = "none"
    /\ job = [t \in Tasks |-> NoJob]

\* VectorStore.similarity_search on the store of service i
SimilaritySearch(i, question, k, embOk) ==
    /\ last' = [NoOp EXCEPT !.op = "search", !.inst = i, !.q = question, !.k = k,
                   !.searched = TRUE,
                   !.results = similarity_search(mem[i], question, k, embOk),
                   !.embFailed = (mem[i] # <<>> /\ ~embOk),
                   !.searchFailed = SearchRaises(mem[i], k, embOk)]
    /\ mem' = [mem EXCEPT ![i] = index_after_search(
                                     mem[i], similarity_search(mem[i], question, k, embOk))]
    /\ UNCHANGED <<disk, enabled, cache, origin, ttl, scen, cleared, tvars>>

NextSearch ==
    \E i \in Insts, question \in SearchQuestions, k \in SearchKs, embOk \in BOOLEAN :
        SimilaritySearch(i, question, k, embOk)

SpecSearch == InitSearch /\ [][NextSearch]_vars

\* ------------------------------------------------ image descriptions
\* the bytes and the names of uploaded images
ImageBytes == {<<"x">>, <<"y">>}
ImageNames == {"cat.jpg", "dog.jpg"}

\* result.get("response", ""): what the vision model may answer
Descriptions == {"", "a cat", "a dog"}

\* CacheService.generate_image_hash
generate_image_hash(image_data) == Sha256Hex(image_data)

\* f"image:{image_hash}"
ImageRedisKey(image_hash) == <<"image:">> \o image_hash

\* truth value of a Python str
Truthy(str) == str # ""

\* CacheService.get_cached_description: the stored string when it is truthy,
\* None (hit = FALSE) otherwise, when disabled and when Redis raises
get_cached_description(en, c, image_hash, fault) ==
    LET key == ImageRedisKey(image_hash) IN
    IF en /\ ~fault /\ key \in DOMAIN c /\ Truthy(c[key])
    THEN [hit |-> TRUE, value |-> c[key]]
    ELSE [hit |-> FALSE, value |-> ""]

\* CacheService.set_cached_description
set_cached_description(en, c, image_hash, description, fault) ==
    IF en /\ ~fault THEN MapPut(c, ImageRedisKey(image_hash), description) ELSE c

\* VisionService.describe_image; ok = FALSE: it raises
describe_image(en, c, image_data, env) ==
    LET image_hash == generate_image_hash(image_data)
        cached == get_cached_description(en, c, image_hash, env.getFault)
        none == [ok |-> FALSE, description |-> "", cache |-> c, hit |-> FALSE,
                 model |-> FALSE, cacheSet |-> FALSE]
    IN
    IF Truthy(cached.value) /\ cached.hit
    THEN [none EXCEPT !.ok = TRUE, !.description = cached.value, !.hit = TRUE]
    ELSE IF ~env.encodeOk THEN none
    ELSE IF ~env.modelOk THEN [none EXCEPT !.model = TRUE]
    ELSE [none EXCEPT !.ok = TRUE, !.description = env.description, !.model = TRUE,
                      !.cacheSet = (en /\ ~env.setFault),
                      !.cache = set_cached_description(en, c, image_hash,
                                                       env.description, env.setFault)]

\* POST /api/describe: the route looks the bytes up itself before it calls
\* describe_image
describe_route(en, c, image_data, env) ==
    LET cached == get_cached_description(en, c, generate_image_hash(image_data),
                                         env.routeFault) IN
    IF Truthy(cached.value) /\ cached.hit
    THEN [ok |-> TRUE, description |-> cached.value, cache |-> c, hit |-> TRUE,
          model |-> FALSE, cacheSet |-> FALSE]
    ELSE describe_image(en, c, image_data, env)

\* what Redis, PIL and the vision endpoint may do during one call
ImageEnvs(en) ==
    { e \in [routeFault : BOOLEAN, getFault : BOOLEAN, setFault : BOOLEAN,
             encodeOk : BOOLEAN, modelOk : BOOLEAN, description : Descriptions] :
        /\ ~en => ~e.routeFault /\ ~e.getFault /\ ~e.setFault
        /\ ~(e.encodeOk /\ e.modelOk) => e.description = "" /\ ~e.setFault
        /\ ~e.encodeOk => e.modelOk }

\* an image arrives at POST /api/describe or as a Telegram photo
DescribeImage(i, name, image_data) ==
    /\ \E env \in ImageEnvs(enabled[i]) :
       \E r \in { IF i = "http" THEN describe_route(enabled[i], cache, image_data, env)
                  ELSE describe_image(enabled[i], cache, image_data,
                                      [env EXCEPT !.routeFault = FALSE]) } :
          /\ cache' = r.cache
          /\ origin' = IF r.cacheSet
                       THEN MapPut(origin, ImageRedisKey(generate_image_hash(image_data)),
                                   name)
                       ELSE origin
          /\ ttl' = IF r.cacheSet
                    THEN MapPut(ttl, ImageRedisKey(generate_image_hash(image_data)),
                                REDIS_TTL)
                    ELSE ttl
          /\ last' = [NoOp EXCEPT !.op = "describe", !.inst = i, !.file = name,
                         !.q = image_data, !.ok = r.ok,
                         !.res = [answer |-> r.description], !.hit = r.hit,
                         !.llm = r.model, !.cacheSet = r.cacheSet,
                         !.fault = (env.routeFault \/ env.getFault \/ env.setFault)]
    /\ UNCHANGED <<mem, disk, enabled, scen, cleared, tvars>>

NextImage ==
    \/ \E i \in Insts, name \in ImageNames, image_data \in ImageBytes :
          DescribeImage(i, name, image_data)
    \/ \E key \in DOMAIN cache : Expire(key)

SpecImage == Init /\ [][NextImage]_vars

\* ------------------------------------------------ clearing the cache
\* the cache_type values DELETE /api/cache/clear lets through
CacheTypes == {"all", "images", "rag"}

\* redis keys(pattern) for the patterns "image:*" and "rag_query:*"
KeysMatching(c, prefix) == {key \in DOMAIN c : key[1] = prefix}

\* redis delete(*keys)
DeleteKeys(c, keys) == [key \in DOMAIN c \ keys |-> c[key]]

\* (variant) every cache_type empties the database
clear_cache_flush(en, c, cache_type, fault) ==
    IF en /\ ~fault THEN [ok |-> TRUE, cache |-> EmptyMap]
    ELSE [ok |-> FALSE, cache |-> c]

\* CacheService.clear_cache: flushdb for "all", else the keys of the pattern
\* are deleted; False when disabled or when Redis raises
clear_cache(en, c, cache_type, fault) ==
    IF ~en \/ fault THEN [ok |-> FALSE, cache |-> c]
    ELSE CASE cache_type = "all" -> [ok |-> TRUE, cache |-> EmptyMap]
           [] cache_type = "images" ->
                [ok |-> TRUE, cache |-> DeleteKeys(c, KeysMatching(c, "image:"))]
           [] cache_type = "rag" ->
                [ok |-> TRUE, cache |-> DeleteKeys(c, KeysMatching(c, "rag_query:"))]
           [] OTHER -> [ok |-> TRUE, cache |-> c]

\* DELETE /api/cache/clear, served with the CacheService of routes.py
ClearCache(cache_type) ==
    /\ \E r \in { clear_cache(enabled["http"], cache, cache_type, fault) :
                    fault \in {f \in BOOLEAN : f => enabled["http"]} } :
          /\ cache' = r.cache
          /\ origin' = DeleteKeys(origin, DOMAIN origin \ DOMAIN r.cache)
          /\ ttl' = DeleteKeys(ttl, DOMAIN ttl \ DOMAIN r.cache)
          /\ last' = [NoOp EXCEPT !.op = "clear_cache", !.inst = "http", !.ok = r.ok,
                         !.cache_type = cache_type,
                         !.deleted = DOMAIN cache \ DOMAIN r.cache]
    /\ UNCHANGED <<mem, disk, enabled, scen, cleared, tvars>>

\* both services hold one chunk that earlier adds persisted
InitCache ==
    /\ disk = [state |-> "ok", docs |-> <<[content |-> TA]>>]
    /\ mem = [i \in Insts |-> _load_index(disk)]
    /\ enabled \in [Insts -> BOOLEAN]
    /\ cache = EmptyMap /\ origin = EmptyMap /\ ttl = EmptyMap
    /\ last = NoOp /\ scen = NoScen /\ cleared = FALSE
    /\ pc = [t \in Tasks |-> "idle"] /\ running = "none"
    /\ job = [t \in Tasks |-> NoJob]

NextCache ==
    \/ \E question \in {<<"a">>, <<" ", "a">>} : Query("http", question, 0, FALSE)
    \/ \E i \in Insts : DescribeImage(i, "cat.jpg", <<"x">>)
    \/ \E cache_type \in CacheTypes : ClearCache(cache_type)

SpecCache == InitCache /\ [][NextCache]_vars

\* ------------------------------------------- embedding dimensions
\* lengths of the vectors the embedding endpoint may return; the model it
\* serves is read from the configuration at start and may be replaced
Dims == {1, 2}

\* the chunks of one batch with the length of the vector embedded for each
Embedded(chunks, dims) ==
    [j \in 1..Len(chunks) |-> [content |-> chunks[j].content, dim |-> dims[j]]]

\* np.array(embeddings, dtype=np.float32): the rows have one length
Homogeneous(m) == \A j, k \in 1..Len(m) : m[j].dim = m[k].dim

\* (variant) the index takes vectors of any length
DimensionsAgreeAlways(m, chunks) == TRUE

\* index.add(vector): the rows have one length and it is the d of the index
DimensionsAgree(m, chunks) == Homogeneous(m \o chunks)

\* VectorStore.add_documents, lines 87-109, for embedded chunks: from_documents
\* builds an index of the vectors' length when there is none; index.add raises
\* before the docstore is touched when the lengths disagree
add_embedded(m, d, chunks, outcome) ==
    IF Len(chunks) = 0 \/ ~DimensionsAgree(m, chunks)
    THEN [ok |-> FALSE, mem |-> m, disk |-> d]
    ELSE LET m2 == m \o chunks IN
         [ok |-> outcome = "ok", mem |-> m2, disk |-> _save_index(d, m2, outcome)]

\* an add on the store of service i while the endpoint returns dims
AddEmbedded(i, text, dims) ==
    LET chunks == Embedded(split_documents(<<text>>), dims) IN
    /\ Len(mem[i]) + Len(chunks) <= MaxDocs
    /\ \E r \in { add_embedded(mem[i], disk, chunks, outcome) :
                    outcome \in SaveOutcomes } :
          /\ mem' = [mem EXCEPT ![i] = r.mem]
          /\ disk' = r.disk
          /\ AddHistory(i, r, chunks, FALSE)
    /\ UNCHANGED <<enabled, cache, origin, ttl, tvars>>

NextDim ==
    \/ \E i \in Insts, text \in TextArgs :
       \E dims \in [1..Len(text) -> Dims] : AddEmbedded(i, text, dims)
    \/ Clear("http")
    \/ RestartNoRedis

SpecDim == InitIndex /\ [][NextDim]_vars

\* -------------------------------------------------- external calls
\* Whether a request that was accepted and is never answered is given up:
\* Redis is built with socket_connect_timeout only (socket_timeout stays None),
\* Ollama and OllamaEmbeddings are built without a timeout, and the requests
\* they post wait for the response without limit.
HasReadTimeout(endpoint) == FALSE

\* the requests of one RAGService.query in order: cache get, embedding of the
\* question (no index: similarity_search returns before it), llm.invoke,
\* cache set
CallsOfQuery(m, en) ==
    (IF en THEN <<"redis">> ELSE <<>>)
        \o (IF m # <<>> THEN <<"embedding", "llm">> ELSE <<>>)
        \o (IF en /\ m # <<>> THEN <<"redis">> ELSE <<>>)

\* the requests of one add: embed_documents posts one request per chunk
CallsOfAdd(chunks) == [j \in 1..Len(chunks) |-> "embedding"]

\* a handler calls the service: the call is synchronous, so the event loop
\* runs nothing else until it returns
StartCall(t) ==
    /\ running = "none" /\ pc[t] = "idle"
    /\ \E todo \in IF t \in QueryTasks
                   THEN {CallsOfQuery(mem[InstOf(t)], enabled[InstOf(t)])}
                   ELSE {CallsOfAdd(split_documents(<<text>>)) : text \in TextArgs} :
          /\ job' = [job EXCEPT ![t] = [todo |-> todo, responds |-> TRUE]]
          /\ pc' = [pc EXCEPT ![t] = IF todo = <<>> THEN "idle" ELSE "send"]
          /\ running' = IF todo = <<>> THEN "none" ELSE t
          /\ last' = [NoOp EXCEPT !.op = "call", !.inst = InstOf(t),
                         !.ok = (todo = <<>>)]
    /\ UNCHANGED <<mem, disk, enabled, cache, origin, ttl, scen, cleared>>

\* the next request is posted; the endpoint accepts it and will or will not
\* answer
SendRequest(t) ==
    /\ running = t /\ pc[t] = "send"
    /\ \E responds \in BOOLEAN :
          job' = [job EXCEPT ![t].responds = responds]
    /\ pc' = [pc EXCEPT ![t] = "waiting"]
    /\ UNCHANGED <<mem, disk, enabled, cache, origin, ttl, last, scen, cleared, running>>

\* the blocked read returns: with an error or a cache hit the call returns at
\* once (ends), otherwise it goes on to its next request
ReceiveResponse(t) ==
    /\ running = t /\ pc[t] = "waiting"
    /\ job[t].responds \/ HasReadTimeout(Head(job[t].todo))
    /\ \E ends \in BOOLEAN :
          LET rest == IF ends THEN <<>> ELSE Tail(job[t].todo) IN
          /\ job' = [job EXCEPT ![t].todo = rest]
          /\ pc' = [pc EXCEPT ![t] = IF rest = <<>> THEN "idle" ELSE "send"]
          /\ running' = IF rest = <<>> THEN "none" ELSE t
          /\ last' = [NoOp EXCEPT !.op = "return", !.inst = InstOf(t),
                         !.ok = job[t].responds /\ ~ends]
    /\ UNCHANGED <<mem, disk, enabled, cache, origin, ttl, scen, cleared>>

CallTasks == AddTasks \cup QueryTasks

InitCalls ==
    /\ disk \in {NoDisk, [state |-> "ok", docs |-> <<[content |-> TA]>>]}
    /\ mem = [i \in Insts |-> _load_index(disk)]
    /\ enabled \in [Insts -> BOOLEAN]
    /\ cache = EmptyMap /\ origin = EmptyMap /\ ttl = EmptyMap
    /\ last = NoOp /\ scen = NoScen /\ cleared = FALSE
    /\ pc = [t \in Tasks |-> "idle"] /\ running = "none"
    /\ job = [t \in Tasks |-> NoJob]

NextCalls ==
    \/ \E t \in CallTasks : StartCall(t)
    \/ \E t \in CallTasks : SendRequest(t)
    \/ \E t \in CallTasks : ReceiveResponse(t)

\* a step that can be taken is taken: the process keeps running and a
\* response that arrives ends the read that waits for it
SpecCalls == InitCalls /\ [][NextCalls]_vars /\ WF_vars(NextCalls)

\* ---------------------------------------------------- text splitter
\* RecursiveCharacterTextSplitter as VectorStore builds it: the default
\* separators, keep_separator and strip_whitespace True, length_function len
Separators == << <<"\n", "\n">>, <<"\n">>, <<" ">>, <<>> >>

\* the separators DocumentProcessor passes
ProcessorSeparators == << <<"\n", "\n">>, <<"\n">>, <<".", " ">>, <<" ">>, <<>> >>

Alphabet == {"a", "b", " ", "\n"}
Texts == UNION { [1..n -> Alphabet] : n \in 0..MaxTextLen }

RECURSIVE Concat(_)
Concat(pieces) == IF pieces = <<>> THEN <<>> ELSE Head(pieces) \o Concat(Tail(pieces))

RECURSIVE TotalLen(_)
TotalLen(pieces) ==
    IF pieces = <<>> THEN 0 ELSE Len(Head(pieces)) + TotalLen(Tail(pieces))

\* position of the leftmost occurrence of separator in text, 0 if none
FirstMatch(text, separator) ==
    LET at == {j \in 1..(Len(text) - Len(separator) + 1) :
                  SubSeq(text, j, j + Len(separator) - 1) = separator}
    IN IF at = {} THEN 0 ELSE CHOOSE j \in at : \A k \in at : j <= k

\* re.split(f"({separator})", text) with each separator put in front of the
\* piece that follows it
RECURSIVE SplitKeep(_, _)
SplitKeep(text, separator) ==
    LET j == FirstMatch(text, separator) IN
    IF j = 0 THEN <<text>>
    ELSE LET rest == SplitKeep(SubSeq(text, j + Len(separator), Len(text)), separator)
         IN <<SubSeq(text, 1, j - 1)>> \o <<separator \o Head(rest)>> \o Tail(rest)

NonEmpty(piece) == piece # <<>>

\* _split_text_with_regex: list(text) for the separator ""; empty pieces are
\* dropped
_split_text_with_regex(text, separator) ==
    SelectSeq(IF separator = <<>> THEN [j \in 1..Len(text) |-> <<text[j]>>]
              ELSE SplitKeep(text, separator),
              NonEmpty)

\* TextSplitter._join_docs with the separator "": the stripped text, or
\* nothing (None) when it is empty
_join_docs(docs) ==
    LET text == Strip(Concat(docs)) IN IF text = <<>> THEN <<>> ELSE <<text>>

\* the while loop of _merge_splits: pieces leave the front of the window until
\* it is no longer than the overlap and the next piece (of length len) fits
RECURSIVE PopFront(_, _)
PopFront(current_doc, len) ==
    LET total == TotalLen(current_doc) IN
    IF total > chunk_overlap \/ (total + len > chunk_size /\ total > 0)
    THEN PopFront(Tail(current_doc), len)
    ELSE current_doc

\* the for loop of _merge_splits
RECURSIVE MergeLoop(_, _, _)
MergeLoop(splits, docs, current_doc) ==
    IF splits = <<>> THEN docs \o _join_docs(current_doc)
    ELSE LET d == Head(splits)
             full == /\ TotalLen(current_doc) + Len(d) > chunk_size
                     /\ current_doc # <<>>
         IN MergeLoop(Tail(splits),
                      IF full THEN docs \o _join_docs(current_doc) ELSE docs,
                      (IF full THEN PopFront(current_doc, Len(d)) ELSE current_doc)
                          \o <<d>>)

\* (variant) the pieces are joined into one chunk whatever their length
_merge_splits_whole(splits) == _join_docs(splits)

\* TextSplitter._merge_splits (separator "", as keep_separator is True)
_merge_splits(splits) == MergeLoop(splits, <<>>, <<>>)

\* RecursiveCharacterTextSplitter._split_text: the first separator that is ""
\* or occurs in the text splits it; pieces shorter than chunk_size are merged,
\* a longer one is split with the separators that remain
RECURSIVE _split_text(_, _)
RECURSIVE SplitLoop(_, _, _)
SplitLoop(splits, _good_splits, new_separators) ==
    LET merged == IF _good_splits = <<>> THEN <<>> ELSE _merge_splits(_good_splits)
    IN IF splits = <<>> THEN merged
       ELSE LET s == Head(splits) IN
            IF Len(s) < chunk_size
            THEN SplitLoop(Tail(splits), _good_splits \o <<s>>, new_separators)
            ELSE merged
                 \o (IF new_separators = <<>> THEN <<s>>
                     ELSE _split_text(s, new_separators))
                 \o SplitLoop(Tail(splits), <<>>, new_separators)

_split_text(text, separators) ==
    LET found == {j \in 1..Len(separators) :
                     separators[j] = <<>> \/ FirstMatch(text, separators[j]) # 0}
        i == IF found = {} THEN 0 ELSE CHOOSE j \in found : \A k \in found : j <= k
        separator == IF i = 0 THEN separators[Len(separators)] ELSE separators[i]
        new_separators ==
            IF i = 0 \/ separator = <<>> THEN <<>>
            ELSE SubSeq(separators, i + 1, Len(separators))
    IN SplitLoop(_split_text_with_regex(text, separator), <<>>, new_separators)

\* self.text_splitter.split_documents(documents), for one Document: the
\* page_content of the chunks made of its page_content
split_text(text) == _split_text(text, Separators)

\* re.sub(r'\s+', ' ', text)
RECURSIVE CollapseSpaces(_)
CollapseSpaces(text) ==
    IF text = <<>> THEN <<>>
    ELSE IF IsSpace(Head(text))
         THEN <<" ">> \o CollapseSpaces(LStrip(text))
         ELSE <<Head(text)>> \o CollapseSpaces(Tail(text))

\* DocumentProcessor.clean_text (no character of the alphabet is removed by
\* the second substitution)
clean_text(text) == Strip(CollapseSpaces(text))

\* DocumentProcessor.chunk_text (a class no handler uses)
chunk_text(text) ==
    IF text = <<>> THEN <<>> ELSE _split_text(clean_text(text), ProcessorSeparators)

\* a passage of every text of the alphabet up to MaxTextLen is to be split
InitChunk ==
    /\ disk = NoDisk
    /\ mem = [i \in Insts |-> _load_index(disk)]
    /\ enabled = [i \in Insts |-> FALSE]
    /\ cache = EmptyMap /\ origin = EmptyMap /\ ttl = EmptyMap
    /\ \E text \in Texts : last = [NoOp EXCEPT !.op = "text", !.q = text]
    /\ scen = NoScen /\ cleared = FALSE
    /\ pc = [t \in Tasks |-> "idle"] /\ running = "none"
    /\ job = [t \in Tasks |-> NoJob]

\* VectorStore.add_documents, line 79
SplitText ==
    /\ last.op = "text"
    /\ last' = [last EXCEPT !.op = "split", !.chunks = split_text(last.q)]
    /\ UNCHANGED <<mem, disk, enabled, cache, origin, ttl, scen, cleared, tvars>>

ChunkText ==
    /\ last.op = "text"
    /\ last' = [last EXCEPT !.op = "chunk_text", !.chunks = chunk_text(last.q)]
    /\ UNCHANGED <<mem, disk, enabled, cache, origin, ttl, scen, cleared, tvars>>

NextChunk == SplitText \/ ChunkText

SpecChunk == InitChunk /\ [][NextChunk]_vars

\* ------------------------------------------------ query-key derivation
KeyAlphabet == {"a", "A", "b", " "}
KeyTexts == UNION { [1..n -> KeyAlphabet] : n \in 0..MaxKeyLen }

\* two strings whose keys are to be derived
InitKeys ==
    /\ disk = NoDisk
    /\ mem = [i \in Insts |-> _load_index(disk)]
    /\ enabled = [i \in Insts |-> FALSE]
    /\ cache = EmptyMap /\ origin = EmptyMap /\ ttl = EmptyMap
    /\ \E x \in KeyTexts, y \in KeyTexts :
          last = [NoOp EXCEPT !.op = "strings", !.args = <<x, y>>]
    /\ scen = NoScen /\ cleared = FALSE
    /\ pc = [t \in Tasks |-> "idle"] /\ running = "none"
    /\ job = [t \in Tasks |-> NoJob]

\* CacheService.generate_rag_cache_key applied to each
GenerateKeys ==
    /\ last.op = "strings"
    /\ last' = [last EXCEPT !.op = "keys",
                   !.keys = [j \in 1..2 |-> generate_rag_cache_key(last.args[j])]]
    /\ UNCHANGED <<mem, disk, enabled, cache, origin, ttl, scen, cleared, tvars>>

NextKeys == GenerateKeys

SpecKeys == InitKeys /\ [][NextKeys]_vars

\* --------------------------------------------------------- expiry
\* seconds that may pass between two requests
TickSteps == {RagTtl \div 2, REDIS_TTL \div 2}

\* (variant) Redis keeps every entry however old
RedisTickKeepsAll(c, t, d) ==
    [cache |-> c, ttl |-> [key \in DOMAIN t |-> IF t[key] > d THEN t[key] - d ELSE 1]]

\* Redis after d seconds: an entry written with setex is gone once the
\* seconds it was given have passed
RedisTick(c, t, d) ==
    LET alive == {key \in DOMAIN c : t[key] > d} IN
    [cache |-> [key \in alive |-> c[key]], ttl |-> [key \in alive |-> t[key] - d]]

\* d seconds pass; origin keeps the keys that were ever written
Tick(d) ==
    /\ \E r \in { RedisTick(cache, ttl, d) } :
          /\ cache' = r.cache
          /\ ttl' = r.ttl
          /\ last' = [NoOp EXCEPT !.op = "tick", !.k = d,
                         !.deleted = DOMAIN cache \ DOMAIN r.cache]
    /\ UNCHANGED <<mem, disk, enabled, origin, scen, cleared, tvars>>

NextTtl ==
    \/ \E i \in Insts : Query(i, <<"a">>, 0, FALSE)
    \/ \E i \in Insts : DescribeImage(i, "cat.jpg", <<"x">>)
    \/ \E d \in TickSteps : Tick(d)

SpecTtl == InitCache /\ [][NextTtl]_vars

\* --------------------------------------------------------- metadata
\* the metadata argument of add_document / add_document_from_file: None
\* (given = FALSE) or a dict
NoMetadata == [given |-> FALSE, fields |-> EmptyMap]

MetadataArgs ==
    {NoMetadata}
        \cup {[given |-> TRUE, fields |-> f] :
                f \in {EmptyMap, [source |-> "telegram", user_id |-> "u"],
                       [user_id |-> "u"]}}

\* truth value of the argument: None and {} are falsy
TruthyDict(metadata) == metadata.given /\ DOMAIN metadata.fields # {}

\* dict.update
DictUpdate(f, g) ==
    [x \in DOMAIN f \cup DOMAIN g |-> IF x \in DOMAIN g THEN g[x] ELSE f[x]]

\* RAGService.add_document, lines 53-56: Document(page_content=text,
\* metadata=metadata or {'source': 'text_input'})
TextDocument(text, metadata) ==
    [page_content |-> text,
     metadata |-> IF TruthyDict(metadata) THEN metadata.fields
                  ELSE [source |-> "text_input"]]

\* DocumentLoaderService.load_document with the metadata it sets on every page
\* (lines 53-61), then add_document_from_file, lines 82-85
FileDocuments(file, metadata) ==
    LET pages == load_document(file) IN
    [j \in 1..Len(pages) |->
        [page_content |-> pages[j],
         metadata |-> LET loaded == [source |-> "path", filename |-> "name"] IN
                      IF TruthyDict(metadata) THEN DictUpdate(loaded, metadata.fields)
                      ELSE loaded]]

\* split_documents: every chunk carries the metadata of its Document
RECURSIVE SplitWithMetadata(_)
SplitWithMetadata(documents) ==
    IF documents = <<>> THEN <<>>
    ELSE LET doc == Head(documents) IN
         [j \in 1..Len(doc.page_content) |->
             [content |-> doc.page_content[j], metadata |-> doc.metadata]]
         \o SplitWithMetadata(Tail(documents))

\* VectorStore.add_documents, lines 83-109, for the chunks of the batch
add_chunks(m, d, chunks, failAt, outcome) ==
    IF Len(chunks) = 0 THEN [ok |-> FALSE, mem |-> m, disk |-> d]
    ELSE IF failAt # 0
         THEN [ok |-> FALSE, mem |-> FaissAddDocuments(m, chunks, failAt), disk |-> d]
         ELSE LET m2 == FaissAddDocuments(m, chunks, 0) IN
              [ok |-> outcome = "ok", mem |-> m2, disk |-> _save_index(d, m2, outcome)]

\* an add of documents that carry metadata, on the store of service i
AddWithMetadata(i, documents) ==
    LET chunks == SplitWithMetadata(documents) IN
    /\ Len(mem[i]) + Len(chunks) <= MaxDocs
    /\ \E failAt \in 0..Len(chunks) :
       \E r \in { add_chunks(mem[i], disk, chunks, failAt, outcome) :
                    outcome \in SaveOutcomes } :
          /\ mem' = [mem EXCEPT ![i] = r.mem]
          /\ disk' = r.disk
          /\ AddHistory(i, r, chunks, failAt # 0)
    /\ UNCHANGED <<enabled, cache, origin, ttl, tvars>>

\* RAGService.add_document(text, metadata)
AddDocumentWith(i, text, metadata) ==
    AddWithMetadata(i, <<TextDocument(text, metadata)>>)

\* RAGService.add_document_from_file(file_path, metadata)
AddFileWith(i, file, metadata) ==
    /\ load_document(file) # <<>>
    /\ AddWithMetadata(i, FileDocuments(file, metadata))

NextMeta ==
    \/ \E metadata \in MetadataArgs : AddDocumentWith("telegram", <<TA>>, metadata)
    \/ \E file \in {f \in FileArgs : Len(f.pages) <= 1}, metadata \in MetadataArgs :
          AddFileWith("http", file, metadata)
    \/ Clear("http")
    \/ RestartNoRedis

SpecMeta == InitIndex /\ [][NextMeta]_vars

\* ------------------------------------------------- one store alone
\* The HTTP service at work while the bot receives nothing: every add, clear
\* and query of one VectorStore, and restarts.
NextSingle ==
    \/ \E file \in FileArgs : AddDocumentFromFile("http", file)
    \/ Clear("http")
    \/ \E question \in ChunkQuestions, top_k \in TopKArgs :
          Query("http", question, top_k, FALSE)
    \/ RestartNoRedis

SpecSingle == InitIndex /\ [][NextSingle]_vars

\* ----------------------------------------- the query path with clear
\* The query path together with DELETE /api/rag/clear.
NextClear ==
    \/ NextQuery
    \/ Clear("http")

SpecClear == Init /\ [][NextClear]_vars

\* ------------------------------------------- query with its arguments
\* RAGService.query(question, top_k, include_sources) with every argument a
\* caller may give: top_k None (explicit = FALSE) or an integer, sources
\* asked for or not.  The history keeps the arguments.
QueryApi(i, question, top_k, explicit, include_sources) ==
    /\ ~explicit => top_k = 0
    /\ \E r \in { query(mem[i], enabled[i], cache, question, top_k,
                        include_sources, env) : env \in Envs(enabled[i]) } :
          /\ cache' = r.cache
          /\ origin' = IF r.cache # cache
                       THEN MapPut(origin, QueryRedisKey(question), question)
                       ELSE origin
          /\ ttl' = IF r.written
                    THEN MapPut(ttl, QueryRedisKey(question), RagTtl)
                    ELSE ttl
          /\ last' = [NoOp EXCEPT !.op = "query", !.inst = i, !.q = question,
                         !.res = r.res, !.hit = r.hit, !.searched = r.searched,
                         !.results = r.results, !.embFailed = r.embFailed,
                         !.searchFailed = r.searchFailed, !.llm = r.llm,
                         !.llmFailed = r.llmFailed, !.cacheSet = r.cacheSet,
                         !.fault = r.fault, !.k = top_k, !.explicit_k = explicit,
                         !.include_sources = include_sources]
          /\ mem' = [mem EXCEPT ![i] = index_after_search(mem[i], r.results)]
    /\ UNCHANGED <<disk, enabled, scen, cleared, tvars>>

\* both services hold the two chunks that earlier adds persisted
InitSources ==
    /\ disk = [state |-> "ok", docs |-> <<[content |-> TA], [content |-> TB]>>]
    /\ mem = [i \in Insts |-> _load_index(disk)]
    /\ enabled \in [Insts -> BOOLEAN]
    /\ cache = EmptyMap /\ origin = EmptyMap /\ ttl = EmptyMap
    /\ last = NoOp /\ scen = NoScen /\ cleared = FALSE
    /\ pc = [t \in Tasks |-> "idle"] /\ running = "none"
    /\ job = [t \in Tasks |-> NoJob]

\* POST /api/rag/query (top_k as sent, no sources), /ask (no top_k, no
\* sources), and query called with include_sources=True
NextSources ==
    \/ \E top_k \in 0..2, explicit \in BOOLEAN :
          QueryApi("http", TA, top_k, explicit, FALSE)
    \/ QueryApi("telegram", TA, 0, FALSE, FALSE)
    \/ \E i \in Insts, top_k \in {0, 1} :
          QueryApi(i, TA, top_k, top_k # 0, TRUE)
    \/ \E key \in DOMAIN cache : Expire(key)

SpecSources == InitSources /\ [][NextSources]_vars

\* ----------------------------------------------- queries and searches
\* The query path together with direct calls of VectorStore.similarity_search.
NextReads ==
    \/ NextQuery
    \/ \E i \in Insts, question \in ShortQuestions, k \in TopKArgs \ {0},
          embOk \in BOOLEAN : SimilaritySearch(i, question, k, embOk)

SpecReads == Init /\ [][NextReads]_vars

\* ----------------------------------------------------------- claims
Range(f) == {f[x] : x \in DOMAIN f}

\* the lower-cased, whitespace-trimmed text of a question
Normalized(question) == Strip(Lower(question))

IsErrorResult(res) == "error" \in DOMAIN res /\ res.error

\* C1 (SpecQuery): while the cache holds the answer a query for Q generated,
\* a query (cache enabled, Redis answering) whose question has the same
\* lower-cased, trimmed text as Q makes no language-model call and returns
\* that cached answer.
C1_CacheShortCircuit ==
    [][ \A key \in DOMAIN cache :
            ( /\ last'.op = "query"
              /\ enabled[last'.inst]
              /\ ~last'.fault
              /\ Normalized(origin[key]) = Normalized(last'.q) )
            => ( ~last'.llm /\ last'.res = JsonLoads(cache[key]) ) ]_vars

\* C2 (SpecLong): a query answered from the cache gets an answer that was
\* cached by a query for a question with the same lower-cased, trimmed text.
C2_CacheIsolation ==
    (last.op = "query" /\ last.hit)
        => Normalized(origin[QueryRedisKey(last.q)]) = Normalized(last.q)

\* C3 (SpecQuery): a query that misses the cache and whose search returns
\* nothing answers with the fixed no-information answer, calls neither the
\* language model nor the cache write, and no cache entry ever holds that
\* answer; every query that misses the cache searches the index, and once an
\* add to the service's store has succeeded (the store is non-empty) a query
\* that misses the cache and whose search does not fail gets results and calls
\* the language model.
C3_NoCacheOnEmpty ==
    /\ (last.op = "query" /\ last.searched /\ last.results = <<>>)
          => ( /\ last.res = [answer |-> NoInfoAnswer]
               /\ ~last.cacheSet
               /\ ~last.llm )
    /\ \A key \in DOMAIN cache : JsonLoads(cache[key]).answer # NoInfoAnswer
    /\ (last.op = "query" /\ ~last.hit) => last.searched
    /\ (last.op = "add" /\ last.ok) => mem[last.inst] # <<>>
    /\ (last.op = "query" /\ ~last.hit /\ ~last.searchFailed /\ mem[last.inst] # <<>>)
          => (last.results # <<>> /\ last.llm)

\* a query of an enabled, answering cache found the store empty and left no
\* cache entry for its question
C3_Witness ==
    /\ last.op = "query" /\ last.searched /\ last.results = <<>>
    /\ mem[last.inst] = <<>>
    /\ enabled[last.inst] /\ ~last.fault
    /\ QueryRedisKey(last.q) \notin DOMAIN cache

\* C4 (SpecQuery): every query returns an object with an 'answer' field, and
\* the object carries error = true whenever the embedding request of the
\* search or the language-model call failed.
C4_AlwaysWellFormed ==
    last.op = "query"
        => /\ "answer" \in DOMAIN last.res
           /\ (last.embFailed \/ last.llmFailed) => IsErrorResult(last.res)

\* C5 (SpecQuery): a query whose embedding request failed during the search
\* returns the error flag, and not the answer of an index without matches.
C5_EmbeddingFailureSurfaces ==
    (last.op = "query" /\ last.embFailed)
        => (IsErrorResult(last.res) /\ last.res.answer # NoInfoAnswer)

\* C6 (SpecIndex): an add that fails because an embedding request failed
\* returns failure and leaves the in-memory index and the persisted index
\* exactly as they were.
C6_AllOrNothing ==
    [][ (last'.op = "add" /\ last'.embFailed)
            => (~last'.ok /\ mem' = mem /\ disk' = disk) ]_vars

\* an add of two chunks failed on the embedding of one of them
C6_Witness ==
    last.op = "add" /\ last.embFailed /\ Len(last.batch) = 2

\* C7 (SpecIndex): when an add returns success the persisted index is
\* readable and equals the in-memory index, which is the index before the
\* call followed by the chunks of the batch.
C7_PersistBeforeSuccess ==
    [][ (last'.op = "add" /\ last'.ok)
            => ( /\ disk'.state = "ok"
                 /\ disk'.docs = mem'[last'.inst]
                 /\ mem'[last'.inst] = mem[last'.inst] \o last'.batch
                 /\ last'.batch # <<>> ) ]_vars

\* a successful add to a store that already held an entry
C7_Witness ==
    /\ last.op = "add" /\ last.ok
    /\ Len(mem[last.inst]) > Len(last.batch)

\* C8 (SpecIndex): after a successful add of a batch followed by restarts
\* only, both stores hold the persisted index and with it every chunk of the
\* batch, and a search for the text of a chunk of the batch that does not fail
\* returns that text as its top result, at distance 0.
C8_RoundTrip ==
    /\ (scen.stage = "reloaded" /\ last.op = "restart")
          => \A i \in Insts :
                /\ disk.state = "ok" /\ mem[i] = disk.docs
                /\ Range(scen.batch) \subseteq Range(mem[i])
    /\ ( /\ scen.stage = "reloaded" /\ last.op = "query"
         /\ last.searched /\ ~last.searchFailed
         /\ [content |-> last.q] \in Range(scen.batch) )
          => ( /\ last.results # <<>>
               /\ Head(last.results) = [content |-> last.q, distance |-> 0] )

\* add([TA, TB]); restart; search(TA, 1) returned one result
C8_Witness ==
    /\ scen = [stage |-> "reloaded", batch |-> <<[content |-> TA], [content |-> TB]>>]
    /\ last.op = "query" /\ last.q = TA /\ Len(last.results) = 1

\* C9 (SpecIndex): after a clear returned success the in-memory index of the
\* cleared store is empty and no persisted index exists, and until the next
\* successful add every search of that store returns nothing.
C9_ClearDiscards ==
    /\ (last.op = "clear" /\ last.ok)
          => (mem[last.inst] = <<>> /\ disk.state = "absent")
    /\ (cleared /\ last.op = "query" /\ last.inst = "http" /\ last.searched)
          => last.results = <<>>

\* C10 (SpecIndex): after a successful add through one service, a search for
\* the text of each added chunk through every service returns it; after a
\* successful clear, every search through every service returns nothing.
C10_SharedIndex ==
    /\ (last.op = "add" /\ last.ok)
          => \A j \in Insts : \A c \in Range(last.batch) :
                \E r \in Range(similarity_search(mem[j], c.content, RAG_TOP_K, TRUE)) :
                    r.content = c.content
    /\ (last.op = "clear" /\ last.ok)
          => \A j \in Insts : \A question \in ChunkQuestions :
                similarity_search(mem[j], question, RAG_TOP_K, TRUE) = <<>>

\* positions of add_documents from the read of the in-memory store to the
\* end of the rewrite of the persisted index
InAddSection(t) == pc[t] \in {"read", "mutated"}

\* positions from the first mutation of the in-memory store to the end of the
\* persistence or deletion step
InMutation(t) == pc[t] \in {"mutated", "clearing"}

\* C11 (SpecTasks): at most one add is between its read of the in-memory
\* index and the end of its rewrite of the persisted index.
C11_WriterExclusion ==
    Cardinality({t \in AddTasks : InAddSection(t)}) <= 1

\* one Telegram add is inside its section while the handler of another
\* Telegram add has started and waits for the event loop
C11_Witness ==
    /\ pc["addtext_command"] = "mutated"
    /\ pc["handle_document"] = "await"

\* C12 (SpecTasks): when a search executes, no add and no clear is between
\* its first mutation of the in-memory index and the end of its persistence
\* or deletion step.
C12_ReadersWriter ==
    [][ \A t \in QueryTasks :
            (pc[t] = "call" /\ pc'[t] = "searched")
                => \A u \in AddTasks \cup ClearTasks : ~InMutation(u) ]_vars

\* a search has executed while the handlers of an add and of a clear of the
\* same deployment were in flight
C12_Witness ==
    /\ pc["ask_command"] = "searched"
    /\ pc["addtext_command"] = "await"
    /\ pc["upload_to_rag"] = "await"

\* what the collaborators may do during a query when Redis never raises
CleanEnvs == {e \in Envs(TRUE) : ~e.getFault /\ ~e.setFault}

\* C13 (SpecQuery): with the cache disabled, or Redis raising on a get or a
\* set, a cache read reports a miss and a write leaves Redis as it is, and the
\* query returns what a query of a working, empty cache returns for the same
\* search and language-model outcome, with no error flag unless the
\* language-model call failed.
C13_CacheUnavailable ==
    [][ /\ (last'.op = "query" /\ (~enabled[last'.inst] \/ last'.fault))
              => ( /\ ~last'.hit
                   /\ \E top_k \in TopKArgs, env \in CleanEnvs :
                         \E r \in { query(mem[last'.inst], TRUE, EmptyMap, last'.q,
                                          top_k, FALSE, env) } :
                             /\ r.res = last'.res
                             /\ r.results = last'.results
                             /\ r.searchFailed = last'.searchFailed
                             /\ r.llm = last'.llm /\ r.llmFailed = last'.llmFailed
                   /\ ~last'.llmFailed => ~IsErrorResult(last'.res)
                   /\ ~enabled[last'.inst] => cache' = cache )
        /\ \A question \in ShortQuestions :
              /\ ~get_cached_rag_response(FALSE, cache, RagCacheKey(question), FALSE).hit
              /\ ~get_cached_rag_response(TRUE, cache, RagCacheKey(question), TRUE).hit
              /\ set_cached_rag_response(FALSE, cache, RagCacheKey(question),
                                         [answer |-> "ans1"], FALSE) = cache
              /\ set_cached_rag_response(TRUE, cache, RagCacheKey(question),
                                         [answer |-> "ans1"], TRUE) = cache ]_vars

\* Redis raised during a query whose question has a cache entry: the query
\* missed, searched, and answered from the language model
C13_Witness ==
    /\ last.op = "query" /\ last.fault /\ ~last.hit
    /\ last.llm /\ ~last.llmFailed
    /\ QueryRedisKey(last.q) \in DOMAIN cache

\* C14 (SpecQuery): a query that hits the cache searches nothing, calls no
\* language model, writes nothing to the cache, and returns the response that
\* is stored under its key.
C14_HitShortCircuits ==
    [][ (last'.op = "query" /\ last'.hit)
            => ( /\ ~last'.searched /\ ~last'.llm /\ ~last'.cacheSet
                 /\ cache' = cache
                 /\ QueryRedisKey(last'.q) \in DOMAIN cache
                 /\ cache[QueryRedisKey(last'.q)] = JsonDumps(last'.res) ) ]_vars

\* a hit of a service whose store holds an entry a search would have found
C14_Witness ==
    /\ last.op = "query" /\ last.hit
    /\ mem[last.inst] # <<>>
    /\ "num_sources" \in DOMAIN last.res

\* C15 (SpecIndex): an add whose input yields no chunk returns failure and
\* leaves the in-memory index and the persisted index unchanged; so does
\* add_documents of an empty document list and of blank documents, whatever
\* the file system would do.
C15_EmptyAddNoOp ==
    [][ /\ (last'.op = "add" /\ last'.batch = <<>>)
            => (~last'.ok /\ mem' = mem /\ disk' = disk)
        /\ \A i \in Insts, outcome \in SaveOutcomes :
           \A documents \in {<<>>, << <<>> >>, << <<>>, <<>> >>} :
              add_documents(mem[i], disk, documents, 0, outcome)
                  = [ok |-> FALSE, mem |-> mem[i], disk |-> disk] ]_vars

\* /addtext-style add of a text without chunks on a store that holds entries
\* and has a persisted index
C15_Witness ==
    /\ last.op = "add" /\ last.batch = <<>> /\ last.file = "none"
    /\ mem[last.inst] # <<>> /\ disk.state = "ok"

\* what the nearest-neighbour lookup of the last search returned
Lookup == TopK(Scored(mem[last.inst], Embed(last.q)), last.k)

WithSimilarity(s, sim) ==
    LET Same(r) == Similarity(r.distance) = sim IN SelectSeq(s, Same)

\* C16 (SpecSearch): a search with k >= 1 returns at most k results, in
\* ascending order of distance, and the results of equal similarity are in the
\* order in which the nearest-neighbour lookup returned them.
C16_SearchOrder ==
    (last.op = "search" /\ last.k >= 1)
        => ( /\ Len(last.results) <= last.k
             /\ \A a, b \in 1..Len(last.results) :
                   a < b => last.results[a].distance <= last.results[b].distance
             /\ \A r \in Range(last.results) :
                   WithSimilarity(last.results, Similarity(r.distance))
                       = WithSimilarity(Lookup, Similarity(r.distance)) )

\* two results of different distances whose similarities are both 0
C16_Witness ==
    /\ last.op = "search" /\ last.k >= 2 /\ Len(last.results) = 2
    /\ last.results[1].distance < last.results[2].distance
    /\ Similarity(last.results[1].distance) = Similarity(last.results[2].distance)

\* C17 (SpecSearch): a search with k >= 1 whose embedding request succeeds
\* returns min(k, N) results from a store of N entries, however far they are.
C17_NeverFilters ==
    (last.op = "search" /\ last.k >= 1 /\ ~last.embFailed)
        => Len(last.results) = Min(last.k, Len(mem[last.inst]))

\* k below N, and the result is so far that its similarity is 0
C17_Witness ==
    /\ last.op = "search" /\ ~last.embFailed
    /\ last.k >= 1 /\ last.k < Len(mem[last.inst])
    /\ Len(last.results) = last.k
    /\ Similarity(last.results[1].distance) = 0

\* C18 (SpecIndex): after a start (or restart) that finds a damaged persisted
\* index both stores are empty: every search returns nothing and the stats
\* report 0 entries; and an add to such a store whose embedding and save
\* succeed returns success and persists the batch.
C18_CorruptDegrades ==
    /\ (last.op \in {"init", "restart"} /\ disk.state = "corrupt")
          => \A i \in Insts :
                /\ mem[i] = <<>>
                /\ get_stats(mem[i]).total_documents = 0
                /\ \A question \in ChunkQuestions, k \in TopKArgs :
                      similarity_search(mem[i], question, k, TRUE) = <<>>
    /\ disk.state = "corrupt"
          => \A text \in TextArgs \ {<<>>} :
                add_documents(_load_index(disk), disk, <<text>>, 0, "ok")
                    = [ok |-> TRUE, mem |-> split_documents(<<text>>),
                       disk |-> [state |-> "ok", docs |-> split_documents(<<text>>)]]

\* a restart found the index a failed save had left half written
C18_Witness ==
    /\ last.op = "restart" /\ disk.state = "corrupt"
    /\ mem = [i \in Insts |-> <<>>]

\* C19 (SpecIndex): the loader yields no document for a file of an unsupported
\* type or one it cannot read, and add_document_from_file of such a file
\* returns False and changes neither store nor the persisted index, so what a
\* later add does is what it would have done without it.
C19_BadFileNoOp ==
    [][ /\ \A file \in FileArgs : file.kind # "ok" => load_document(file) = <<>>
        /\ (last'.op = "add" /\ last'.file \in {"unsupported", "unreadable"})
              => ( /\ ~last'.ok
                   /\ mem' = mem /\ disk' = disk
                   /\ \A i \in Insts, text \in TextArgs, outcome \in SaveOutcomes :
                         add_documents(mem'[i], disk', <<text>>, 0, outcome)
                             = add_documents(mem[i], disk, <<text>>, 0, outcome) ) ]_vars

\* an unreadable file was offered to a store that holds entries
C19_Witness ==
    /\ last.op = "add" /\ last.file = "unreadable"
    /\ mem[last.inst] # <<>> /\ disk.state = "ok"

\* C20 (SpecImage): while Redis holds the description cached for the bytes of
\* an image, a describe_image of the same bytes (cache enabled, Redis
\* answering) does not call the vision model and returns that description.
C20_ImageShortCircuit ==
    [][ \A key \in DOMAIN cache :
            ( /\ last'.op = "describe"
              /\ enabled[last'.inst] /\ ~last'.fault
              /\ key = ImageRedisKey(generate_image_hash(last'.q)) )
            => ( ~last'.llm /\ last'.ok /\ last'.res.answer = cache[key] ) ]_vars

\* C21 (SpecCache): a clear_cache that returns True removes, for "images",
\* every key of the image namespace and leaves every query key and its value;
\* for "rag", every key of the query namespace and leaves every image key and
\* its value; for "all", every key.
C21_ScopedClear ==
    [][ (last'.op = "clear_cache" /\ last'.ok)
            => LET images == KeysMatching(cache, "image:")
                   queries == KeysMatching(cache, "rag_query:")
                   kept == CASE last'.cache_type = "images" -> queries
                             [] last'.cache_type = "rag" -> images
                             [] OTHER -> {}
               IN /\ DOMAIN cache' = kept
                  /\ \A key \in kept : cache'[key] = cache[key] ]_vars

\* a clear of the image namespace while Redis held entries of both namespaces
C21_Witness ==
    /\ last.op = "clear_cache" /\ last.ok /\ last.cache_type = "images"
    /\ KeysMatching(cache, "rag_query:") # {}
    /\ last.deleted # {}

\* C22 (SpecDim): an add whose vectors differ in length from the entries of
\* the index (or among themselves) returns False and leaves the in-memory
\* index and the persisted index as they were; no index, in memory or
\* persisted, ever holds vectors of two lengths.
C22_DimensionMismatch ==
    /\ [][ (last'.op = "add" /\ last'.batch # <<>>
              /\ ~Homogeneous(mem[last'.inst] \o last'.batch))
            => (~last'.ok /\ mem' = mem /\ disk' = disk) ]_vars
    /\ [](\A i \in Insts : Homogeneous(mem[i]) /\ Homogeneous(disk.docs))

\* a rejected add of a vector of length 2 to an index of vectors of length 1
C22_Witness ==
    /\ last.op = "add" /\ ~last.ok /\ Len(last.batch) = 1
    /\ last.batch[1].dim = 2
    /\ mem[last.inst] # <<>> /\ mem[last.inst][1].dim = 1
    /\ disk.state = "ok" /\ disk.docs = mem[last.inst]

\* C23 (SpecCalls): every call of query, add_document and
\* add_document_from_file that waits for the embedding endpoint, the
\* language-model endpoint or Redis eventually returns, also when the
\* endpoint accepted the request and never answers.
C23_BoundedCalls ==
    \A t \in CallTasks : (pc[t] = "waiting") ~> (pc[t] = "idle")

\* s[-n:] for 0 < n
Suffix(s, n) == SubSeq(s, Len(s) - Min(n, Len(s)) + 1, Len(s))

\* C24 (SpecChunk): of the chunks the splitter of VectorStore makes of one
\* document, every chunk but the last two ends with the chunk_overlap
\* characters its successor begins with.
C24_OverlapInvariant ==
    last.op = "split"
        => \A j \in 1..(Len(last.chunks) - 2) :
              Suffix(last.chunks[j], chunk_overlap)
                  = Prefix(last.chunks[j + 1], chunk_overlap)

\* C25 (SpecChunk): every chunk made by the splitter of VectorStore and by
\* DocumentProcessor.chunk_text has at most chunk_size characters, whatever
\* the text; the empty text gives no chunk.
C25_ChunkSizeBound ==
    last.op \in {"split", "chunk_text"}
        => /\ \A j \in 1..Len(last.chunks) : Len(last.chunks[j]) <= chunk_size
           /\ last.q = <<>> => last.chunks = <<>>

\* a text longer than chunk_size without whitespace, split into several chunks
C25_Witness ==
    /\ last.op = "split" /\ Len(last.q) > chunk_size
    /\ \A j \in 1..Len(last.q) : ~IsSpace(last.q[j])
    /\ Len(last.chunks) >= 2

\* the texts made of the chunks in order, each appended without an overlap of
\* at most chunk_overlap characters that it shares with the text so far
RECURSIVE Reconstructions(_, _)
Reconstructions(text, chunks) ==
    IF chunks = <<>> THEN {text}
    ELSE LET c == Head(chunks) IN
         UNION { Reconstructions(text \o SubSeq(c, n + 1, Len(c)), Tail(chunks)) :
                   n \in {k \in 0..Min(chunk_overlap, Min(Len(c), Len(text))) :
                             k = 0 \/ Suffix(text, k) = Prefix(c, k)} }

\* C26 (SpecChunk): every chunk the splitter of VectorStore makes is a
\* contiguous substring of the document, and the chunks in order, overlaps
\* removed, give the document's text back.
C26_ChunksReconstruct ==
    last.op = "split"
        => /\ \A j \in 1..Len(last.chunks) : FirstMatch(last.q, last.chunks[j]) # 0
           /\ last.q \in Reconstructions(<<>>, last.chunks)

\* C27 (SpecKeys): generate_rag_cache_key gives two strings the same key
\* exactly when they are equal after lower-casing and trimming whitespace.
C27_KeyDerivation ==
    last.op = "keys"
        => ( last.keys[1] = last.keys[2]
               <=> LStrip(RStrip(Lower(last.args[1])))
                     = LStrip(RStrip(Lower(last.args[2]))) )

\* two different strings, in case and in surrounding blanks, with one key
C27_Witness ==
    /\ last.op = "keys"
    /\ last.args = << <<"a">>, <<" ", "A", " ">> >>
    /\ last.keys[1] = last.keys[2]

\* C28 (SpecQuery): one query makes one index search and one llm.invoke at
\* most, and an embedding request or llm.invoke that fails ends the call with
\* the failure as its result: nothing is attempted after it.
C28_NoRetry ==
    last.op = "query"
        => /\ last.llm => last.searched
           /\ last.llmFailed
                => (IsErrorResult(last.res) /\ ~last.cacheSet)
           /\ last.embFailed
                => (IsErrorResult(last.res) /\ ~last.llm /\ ~last.cacheSet)

\* the seconds setex gives an entry of each namespace
TtlOf(key) == IF key[1] = "image:" THEN REDIS_TTL ELSE RagTtl

\* C29 (SpecTtl): an entry is written with the TTL of its namespace (3600 s
\* for a query response, REDIS_TTL for a description); once that many seconds
\* have passed it is in Redis no more, and a query or a describe_image whose
\* entry is gone is a miss and runs the search or the vision model again.
C29_TtlExpiry ==
    /\ [](DOMAIN ttl = DOMAIN cache /\ \A key \in DOMAIN ttl : ttl[key] > 0)
    /\ [][ /\ \A key \in DOMAIN cache' :
                (key \notin DOMAIN cache \/ ttl'[key] > ttl[key])
                    => ttl'[key] = TtlOf(key)
           /\ last'.op = "tick"
                => \A key \in DOMAIN cache :
                      IF ttl[key] <= last'.k THEN key \notin DOMAIN cache'
                      ELSE ttl'[key] = ttl[key] - last'.k
           /\ (last'.op = "query" /\ QueryRedisKey(last'.q) \notin DOMAIN cache)
                => (~last'.hit /\ last'.searched)
           /\ ( /\ last'.op = "describe" /\ last'.ok
                /\ ImageRedisKey(generate_image_hash(last'.q)) \notin DOMAIN cache )
                => (~last'.hit /\ last'.llm) ]_vars

\* a query whose entry was written and has expired: it searched, called the
\* model and, as the model failed, wrote no new entry
C29_Witness ==
    /\ last.op = "query" /\ enabled[last.inst] /\ ~last.fault
    /\ QueryRedisKey(last.q) \in DOMAIN origin \ DOMAIN cache
    /\ ~last.hit /\ last.searched /\ last.llmFailed

\* C30 (SpecIndex): get_stats reports the number of chunks in the in-memory
\* index: 0 before the first add and after a clear, and after an add that
\* returned True the total before it plus the chunks of the batch, equal
\* texts included.
C30_StatsTrackEntries ==
    /\ [](\A i \in Insts : get_stats(mem[i]).total_documents = Len(mem[i]))
    /\ [](last.op = "init" => \A i \in Insts : get_stats(mem[i]).total_documents = 0)
    /\ [][ /\ (last'.op = "add" /\ last'.ok)
                => get_stats(mem'[last'.inst]).total_documents
                     = get_stats(mem[last'.inst]).total_documents + Len(last'.batch)
           /\ last'.op = "clear"
                => get_stats(mem'[last'.inst]).total_documents = 0 ]_vars

\* the same text added a second time: two chunks are reported
C30_Witness ==
    /\ last.op = "add" /\ last.ok /\ last.batch = <<[content |-> TA]>>
    /\ mem[last.inst] = <<[content |-> TA], [content |-> TA]>>
    /\ get_stats(mem[last.inst]).total_documents = 2

\* C31 (SpecMeta): every chunk in an in-memory index and in the persisted
\* index has a 'source' metadata field, whatever metadata add_document and
\* add_document_from_file were called with.
C31_ProvenancePresent ==
    /\ \A i \in Insts : \A j \in 1..Len(mem[i]) : "source" \in DOMAIN mem[i][j].metadata
    /\ \A j \in 1..Len(disk.docs) : "source" \in DOMAIN disk.docs[j].metadata

\* C32 (SpecSingle): between the calls of one VectorStore the entries a load
\* of the persisted index gives are the entries of the in-memory index, also
\* after an add or a clear that returned failure.
C32_AgreeAtRest ==
    last.op \in {"add", "clear", "query", "restart"} => mem["http"] = _load_index(disk)

\* C33 (SpecIndex): an add that returns success leaves in the persisted
\* index every chunk that was persisted before it, through whichever service
\* it was issued and whatever the load at startup gave; with its own chunks
\* persisted too, no chunk of a successful add is lost before a clear.
C33_NoLostIngestion ==
    [][ (last'.op = "add" /\ last'.ok)
            => /\ Range(_load_index(disk)) \subseteq Range(_load_index(disk'))
               /\ Range(last'.batch) \subseteq Range(_load_index(disk')) ]_vars

\* C34 (SpecClear): the query that follows a successful clear through the
\* same service, with no add in between, returns the fixed answer of an index
\* without matches and calls no language model, also for a question that was
\* answered before the clear.
C34_AnswersFollowClear ==
    [][ ( /\ last.op = "clear" /\ last.ok
          /\ last'.op = "query" /\ last'.inst = last.inst )
            => (last'.res.answer = NoInfoAnswer /\ ~last'.llm) ]_vars

\* C35 (SpecSources): a query with include_sources=True that returns an
\* answer of the language model has a 'sources' list as long as num_sources
\* says, whatever was asked before.
C35_SourcesFollowFlag ==
    ( /\ last.op = "query" /\ last.include_sources
      /\ ~IsErrorResult(last.res) /\ last.res.answer \in Answers )
        => /\ "sources" \in DOMAIN last.res
           /\ Len(last.res.sources) = last.res.num_sources

\* C36 (SpecSources): a query called with an integer top_k = k >= 0 returns a
\* num_sources of at most k, when it searched and when it was served from the
\* cache.
C36_SourceCountRespectsK ==
    ( /\ last.op = "query" /\ last.explicit_k /\ last.k >= 0
      /\ ~last.include_sources /\ "num_sources" \in DOMAIN last.res )
        => last.res.num_sources <= last.k

\* C37 (SpecQuery): a query that ends in the error result leaves the cache
\* as it was, no cache entry ever holds an error result, and a query for a
\* question without an entry searches the index and, when the search finds
\* chunks, calls the language model.
C37_ErrorsNotCached ==
    /\ [][ (last'.op = "query" /\ IsErrorResult(last'.res))
              => (cache' = cache /\ ttl' = ttl) ]_vars
    /\ [](\A key \in DOMAIN cache : ~IsErrorResult(JsonLoads(cache[key])))
    /\ [][ ( /\ last.op = "query" /\ IsErrorResult(last.res)
             /\ last'.op = "query" /\ last'.q = last.q
             /\ QueryRedisKey(last.q) \notin DOMAIN cache )
              => ( /\ ~last'.hit /\ last'.searched
                   /\ last'.results # <<>> => last'.llm ) ]_vars

\* a query that ended in the error result with the cache enabled and Redis
\* working: other entries are cached, none for its question
C37_Witness ==
    /\ last.op = "query" /\ enabled[last.inst] /\ ~last.fault
    /\ IsErrorResult(last.res) /\ last.llmFailed
    /\ cache # EmptyMap /\ QueryRedisKey(last.q) \notin DOMAIN cache

\* C38 (SpecReads): a query and a similarity_search leave the in-memory
\* index of every service and the persisted index as they were, whether the
\* query was served from the cache, found nothing, generated an answer or
\* ended in the error result.
C38_QueriesReadOnly ==
    [][ last'.op \in {"query", "search"} => (mem' = mem /\ disk' = disk) ]_vars

\* a query that generated an answer from a chunk of a persisted index
C38_Witness ==
    /\ last.op = "query" /\ last.llm /\ ~last.llmFailed /\ last.results # <<>>
    /\ disk.state = "ok" /\ mem[last.inst] = disk.docs
====
